---------------------------- MODULE Spec2Model ----------------------------
(***************************************************************************)
(* A model of the opendj playback core (src/opendj.go): the mutex-guarded  *)
(* waiting queue, the Play session with its producer and consumer          *)
(* goroutines joined by an errgroup, the handler callbacks and the         *)
(* position / timing queries.                                              *)
(***************************************************************************)
EXTENDS Integers, Sequences, FiniteSets, TLC

VARIABLES
    Items,              \* dj.waitingQueue.Items
    mutex,              \* dj.waitingQueue's sync.Mutex
    call,               \* the queue operation that holds the mutex between two of
                        \* its statements
    snapshot,           \* the slice the last call of Queue() returned, and what its
                        \* holder reads through it
    currentEntry,       \* dj.currentEntry
    songStarted,        \* dj.songStarted
    now,                \* the wall clock read by time.Now / time.Since
    ret,                \* what the last call of a client returned
    pcPlay,             \* position of the goroutine that called Play
    pcP,                \* position of the producer goroutine
    entry,              \* the producer's local: entry (result of pop)
    err,                \* the producer's local: err
    emptyStreamCounter, \* the producer's local: emptyStreamCounter
    pcC,                \* position of the consumer goroutine
    egErr,              \* the errgroup's first error
    errorCalls,         \* the errors handed to handlers.errorHander
    events,             \* the new-song / end-of-song handler calls, in order
    popped,             \* the entries pop has returned, in order
    fifo,               \* what has been written to the named pipe: the entries'
                        \* segments in order, and the silence segments that end it
    skip,               \* a Skip is pending
    cancelled           \* the session's context is cancelled

vars == <<Items, mutex, call, snapshot, currentEntry, songStarted, now, ret, pcPlay, pcP, entry, err,
          emptyStreamCounter, pcC, egErr, errorCalls, events, popped, fifo,
          skip, cancelled>>

queueVars == <<Items, mutex, call, snapshot>>
playbackVars == <<currentEntry, songStarted>>
producerVars == <<pcP, entry, err, emptyStreamCounter>>
sessionVars == <<pcPlay, pcC, egErr, errorCalls>>
historyVars == <<events, popped, fifo>>
controlVars == <<skip, cancelled>>

-----------------------------------------------------------------------------
(* Bounds of the exploration *)

\* The longest queue NewDj is seeded with.
MaxSeed == 2
\* The most entries the queue holds and has handed to pop, together.
MaxAdded == 3
\* The last tick of the clock.
MaxTime == 3

-----------------------------------------------------------------------------
(* Data *)

Media(title, url, duration) == [Title |-> title, URL |-> url, Duration |-> duration]

QueueEntry(media, owner, dedication) ==
    [Media |-> media, Owner |-> owner, Dedication |-> dedication]

EmptyMedia == Media("", "", 0)

EmptyEntry == QueueEntry(EmptyMedia, "", "")

EntA == QueueEntry(Media("A", "urlA", 10), "X", "")
EntB == QueueEntry(Media("B", "urlB", 5), "Y", "")
EntC == QueueEntry(Media("C", "urlC", 7), "X", "")

\* The entries clients hand to the queue.
Entries == {EntA, EntB}

\* An entry whose Media is the zero Media.
EntBlank == QueueEntry(EmptyMedia, "Z", "")

\* The entries of the states the queries are applied to.
QueryEntries == {EntA, EntB, EntC}

Owners == {"X", "Y", "Z"}

ErrorEmptyQueue == "can't pop from empty queue"
ErrIndex == "index out of range"
ErrNothingPlaying == "there is no song being played"
ErrOpen == "open fifo"
ErrResolve == "yt-dlp failed"
ErrWrite == "failed to write to pipe"
ErrStream == "failed to stream from fifo"
ErrCanceled == "context canceled"
Nil == "nil"

emptyStreamLimit == 4

\* The zero time.Time, which dj.songStarted holds until the first song starts.
ZeroTime == -1

\* The Duration at which Time.Sub saturates (math.MaxInt64 nanoseconds in Go; the
\* largest integer of the model checker here).
maxDuration == 2147483647

SeqsUpTo(S, n) == UNION {[1..k -> S] : k \in 0..n}

Indices == -1..MaxAdded

-----------------------------------------------------------------------------
(* Go slice expressions and built-ins, on values (a Go index i is i + 1 here) *)

\* s[lo:hi]
Slice(s, lo, hi) == SubSeq(s, lo + 1, hi)

\* append(s, x)
GoAppend(s, x) == s \o <<x>>

\* append(s, t...)
GoAppendSlice(s, t) == s \o t

\* copy(s[to:], s[from:]) on one backing array: min(len(s) - to, len(s) - from)
\* elements are moved as by memmove, so that the source is read before it is
\* overwritten.
GoCopyWithin(s, to, from) ==
    LET n == IF Len(s) - to < Len(s) - from THEN Len(s) - to ELSE Len(s) - from
    IN  [k \in 1..Len(s) |->
            IF k - 1 >= to /\ k - 1 < to + n THEN s[(k - 1 - to) + from + 1] ELSE s[k]]

Ret(op, e, ent, lst) == [op |-> op, err |-> e, entry |-> ent, list |-> lst]

NoRet == Ret("", Nil, EmptyEntry, <<>>)

-----------------------------------------------------------------------------
(* The mutex, and the slice Queue() has handed out *)

\* No queue operation is between two of its statements.
NoCall == [op |-> "", newEntry |-> EmptyEntry, index |-> 0, pc |-> "", before |-> <<>>]

\* Queue() has not been called. Of a slice it has returned: orig is what it held
\* at the return, seen what its holder reads through it now, d how many elements
\* further into the same backing array Items starts (-1 once the two share no
\* element), during the operation that was under way at the return.
NoSnapshot ==
    [taken |-> FALSE, orig |-> <<>>, seen |-> <<>>, d |-> -1, during |-> NoCall]

\* The returned slice and Items lie in one backing array.
Shares(snap) == snap.taken /\ snap.d >= 0

\* What the returned slice shows once newItems has been written to the backing
\* array from the start of Items on; the elements behind newItems stay.
SeenAfter(snap, newItems) ==
    [k \in 1..Len(snap.seen) |->
        IF k - 1 >= snap.d /\ k - 1 < snap.d + Len(newItems)
        THEN newItems[k - snap.d]
        ELSE snap.seen[k]]

\* The returned slice after Items has been overwritten in place with newItems.
WrittenInPlace(snap, newItems) ==
    IF Shares(snap) THEN [snap EXCEPT !.seen = SeenAfter(snap, newItems)] ELSE snap

\* The returned slice after an append to items that ends in newItems. An append
\* that ends inside the returned slice has the capacity and writes in place; one
\* that ends behind it writes in place or moves Items to a new array, as the
\* capacity that NewDj's caller and the runtime's growth have left decides.
Appended(snap, items, newItems) ==
    IF ~Shares(snap) THEN {snap}
    ELSE {WrittenInPlace(snap, newItems)}
           \cup (IF snap.d + Len(items) >= Len(snap.seen)
                 THEN {[snap EXCEPT !.d = -1]}
                 ELSE {})

\* The returned slice after Items has become Items[1:].
Resliced(snap) ==
    IF ~Shares(snap) THEN snap
    ELSE [snap EXCEPT !.d = IF snap.d + 1 >= Len(snap.seen) THEN -1 ELSE snap.d + 1]

\* dj.waitingQueue.Lock() ... dj.waitingQueue.Unlock() within one step.
Locked == mutex = "unlocked" /\ UNCHANGED <<mutex, call>>

\* Queue() returns the slice dj.waitingQueue.Items itself, without the mutex.
Queue ==
    /\ ret' = Ret("Queue", Nil, EmptyEntry, Items)
    /\ snapshot' = [taken |-> TRUE, orig |-> Items, seen |-> Items,
                    d |-> IF Items = <<>> THEN -1 ELSE 0, during |-> call]
    /\ UNCHANGED <<Items, mutex, call, playbackVars, now, producerVars, sessionVars,
                   historyVars, controlVars>>

-----------------------------------------------------------------------------
(* The queue operations; each holds waitingQueue's mutex from entry to return *)

\* The queue AddEntry leaves.
AddEntryItems(items, newEntry) == GoAppend(items, newEntry)

AddEntry(newEntry) ==
    /\ Len(Items) + Len(popped) < MaxAdded
    /\ Locked
    /\ Items' = AddEntryItems(Items, newEntry)
    /\ snapshot' \in Appended(snapshot, Items, Items')
    /\ ret' = Ret("AddEntry", Nil, EmptyEntry, <<>>)
    /\ UNCHANGED <<playbackVars, now, producerVars, sessionVars, historyVars, controlVars>>

\* The error InsertEntry returns.
InsertEntryErr(items, index) == IF index < 0 THEN ErrIndex ELSE Nil

\* InsertEntry moving the tail the wrong way: copy(Items[index:], Items[index+1:]).
InsertEntryItemsShiftLeft(items, newEntry, index) ==
    IF index < 0 THEN items
    ELSE IF index >= Len(items) THEN GoAppend(items, newEntry)
    ELSE LET grown == GoAppend(items, EmptyEntry)
             shifted == GoCopyWithin(grown, index, index + 1)
         IN  [shifted EXCEPT ![index + 1] = newEntry]

\* InsertEntry putting an entry whose index is too high before the last entry.
InsertEntryItemsClamped(items, newEntry, index) ==
    IF index < 0 THEN items
    ELSE LET at == IF index >= Len(items) /\ Len(items) > 0 THEN Len(items) - 1 ELSE index
             grown == GoAppend(items, EmptyEntry)
             shifted == GoCopyWithin(grown, at + 1, at)
         IN  IF at >= Len(items) THEN GoAppend(items, newEntry)
             ELSE [shifted EXCEPT ![at + 1] = newEntry]

\* The queue InsertEntry leaves.
InsertEntryItems(items, newEntry, index) ==
    IF index < 0 THEN items
    ELSE IF index >= Len(items) THEN GoAppend(items, newEntry)
    ELSE LET grown == GoAppend(items, EmptyEntry)
             shifted == GoCopyWithin(grown, index + 1, index)
         IN  [shifted EXCEPT ![index + 1] = newEntry]

InsertEntry(newEntry, index) ==
    /\ index < 0 \/ Len(Items) + Len(popped) < MaxAdded
    /\ Locked
    /\ Items' = InsertEntryItems(Items, newEntry, index)
    /\ snapshot' \in (IF index < 0 THEN {snapshot} ELSE Appended(snapshot, Items, Items'))
    /\ ret' = Ret("InsertEntry", InsertEntryErr(Items, index), EmptyEntry, <<>>)
    /\ UNCHANGED <<playbackVars, now, producerVars, sessionVars, historyVars, controlVars>>

\* InsertEntry's shifting branch statement by statement, as a holder of the slice
\* Queue() returned can watch it. Lock, and line 118:
\* dj.waitingQueue.Items = append(dj.waitingQueue.Items, QueueEntry{})
InsertEntryGrow(newEntry, index) ==
    /\ Len(Items) + Len(popped) < MaxAdded
    /\ mutex = "unlocked"
    /\ 0 <= index /\ index < Len(Items)
    /\ mutex' = "locked"
    /\ call' = [op |-> "InsertEntry", newEntry |-> newEntry, index |-> index,
                pc |-> "copy", before |-> Items]
    /\ Items' = GoAppend(Items, EmptyEntry)
    /\ snapshot' \in Appended(snapshot, Items, Items')
    /\ UNCHANGED <<playbackVars, now, ret, producerVars, sessionVars, historyVars,
                   controlVars>>

\* Line 119: copy(dj.waitingQueue.Items[index+1:], dj.waitingQueue.Items[index:])
InsertEntryCopy ==
    /\ call.pc = "copy"
    /\ Items' = GoCopyWithin(Items, call.index + 1, call.index)
    /\ snapshot' = WrittenInPlace(snapshot, Items')
    /\ call' = [call EXCEPT !.pc = "store"]
    /\ UNCHANGED <<mutex, playbackVars, now, ret, producerVars, sessionVars, historyVars,
                   controlVars>>

\* Line 120: dj.waitingQueue.Items[index] = newEntry; return nil, and the
\* deferred Unlock.
InsertEntryStore ==
    /\ call.pc = "store"
    /\ Items' = [Items EXCEPT ![call.index + 1] = call.newEntry]
    /\ snapshot' = WrittenInPlace(snapshot, Items')
    /\ mutex' = "unlocked"
    /\ call' = NoCall
    /\ ret' = Ret("InsertEntry", Nil, EmptyEntry, <<>>)
    /\ UNCHANGED <<playbackVars, now, producerVars, sessionVars, historyVars,
                   controlVars>>

\* RemoveIndex accepting the index one past the end.
RemoveIndexErrOffByOne(items, index) ==
    IF index > Len(items) \/ index < 0 THEN ErrIndex ELSE Nil

\* The error RemoveIndex returns.
RemoveIndexErr(items, index) ==
    IF index >= Len(items) \/ index < 0 THEN ErrIndex ELSE Nil

\* The queue RemoveIndex leaves.
RemoveIndexItems(items, index) ==
    IF RemoveIndexErr(items, index) # Nil THEN items
    ELSE GoAppendSlice(Slice(items, 0, index), Slice(items, index + 1, Len(items)))

RemoveIndex(index) ==
    /\ Locked
    /\ Items' = RemoveIndexItems(Items, index)
    /\ snapshot' = WrittenInPlace(snapshot, Items')
    /\ ret' = Ret("RemoveIndex", RemoveIndexErr(Items, index), EmptyEntry, <<>>)
    /\ UNCHANGED <<playbackVars, now, producerVars, sessionVars, historyVars, controlVars>>

\* RemoveIndex as src/main.go has it: Lock, and Unlock only behind the append, so
\* the return of the range check leaves the mutex locked.
MainRemoveIndex(index) ==
    /\ mutex = "unlocked"
    /\ Items' = RemoveIndexItems(Items, index)
    /\ snapshot' = WrittenInPlace(snapshot, Items')
    /\ mutex' = (IF RemoveIndexErr(Items, index) # Nil THEN "locked" ELSE "unlocked")
    /\ ret' = Ret("RemoveIndex", RemoveIndexErr(Items, index), EmptyEntry, <<>>)
    /\ UNCHANGED <<call, playbackVars, now, producerVars, sessionVars, historyVars,
                   controlVars>>

\* The error ChangeIndex returns.
ChangeIndexErr(items, index) ==
    IF index < 0 \/ index >= Len(items) THEN ErrIndex ELSE Nil

\* The queue ChangeIndex leaves.
ChangeIndexItems(items, newEntry, index) ==
    IF ChangeIndexErr(items, index) # Nil THEN items
    ELSE [items EXCEPT ![index + 1] = newEntry]

ChangeIndex(newEntry, index) ==
    /\ Locked
    /\ Items' = ChangeIndexItems(Items, newEntry, index)
    /\ snapshot' = WrittenInPlace(snapshot, Items')
    /\ ret' = Ret("ChangeIndex", ChangeIndexErr(Items, index), EmptyEntry, <<>>)
    /\ UNCHANGED <<playbackVars, now, producerVars, sessionVars, historyVars, controlVars>>

\* The error EntryAtIndex returns.
EntryAtIndexErr(items, index) ==
    IF index >= Len(items) \/ index < 0 THEN ErrIndex ELSE Nil

\* The entry EntryAtIndex returns.
EntryAtIndexEntry(items, index) ==
    IF EntryAtIndexErr(items, index) # Nil THEN EmptyEntry ELSE items[index + 1]

EntryAtIndex(index) ==
    /\ Locked
    /\ ret' = Ret("EntryAtIndex", EntryAtIndexErr(Items, index), EntryAtIndexEntry(Items, index), <<>>)
    /\ UNCHANGED <<queueVars, playbackVars, now, producerVars, sessionVars, historyVars,
                   controlVars>>

\* The error pop returns.
popErr(items) == IF Len(items) < 1 THEN ErrorEmptyQueue ELSE Nil

\* pop taking the newest entry.
popEntryLast(items) == IF Len(items) < 1 THEN EmptyEntry ELSE items[Len(items)]

\* The entry pop returns.
popEntry(items) == IF Len(items) < 1 THEN EmptyEntry ELSE items[1]

\* The queue pop leaves.
popItems(items) == IF Len(items) < 1 THEN items ELSE Slice(items, 1, Len(items))

\* A call of pop by the loop of Play, as src/main.go has it (its pop is that of
\* src/opendj.go): the entry goes to the loop's entry and err.
MainPop ==
    /\ Locked
    /\ entry' = popEntry(Items)
    /\ err' = popErr(Items)
    /\ Items' = popItems(Items)
    /\ snapshot' = (IF popErr(Items) = Nil THEN Resliced(snapshot) ELSE snapshot)
    /\ popped' = IF popErr(Items) = Nil THEN Append(popped, popEntry(Items)) ELSE popped
    /\ UNCHANGED <<playbackVars, now, ret, pcP, emptyStreamCounter, sessionVars, events,
                   fifo, controlVars>>

-----------------------------------------------------------------------------
(* Play: the producer goroutine *)

EmptyFifo == [entries |-> <<>>, silence |-> 0]

\* ffmpeg has written a silence segment to the pipe.
writeSilence(f) == [f EXCEPT !.silence = @ + 1]

\* An entry's audio put in front of what the pipe holds.
writeEntryInFront(f, e) == [entries |-> <<e>> \o f.entries, silence |-> 0]

\* ffmpeg has written an entry's audio to the pipe.
writeEntry(f, e) == [entries |-> Append(f.entries, e), silence |-> 0]

\* eg.Go's functions return into the errgroup, which keeps the first error.
egReturn(first, e) == IF first = Nil THEN e ELSE first

SessionRunning == pcPlay = "waiting"

\* Play removes and recreates the named pipe and starts the two goroutines.
Play ==
    /\ pcPlay = "idle"
    /\ pcPlay' = "waiting"
    /\ pcP' = "open"
    /\ pcC' = "sleep"
    /\ emptyStreamCounter' = 0
    /\ UNCHANGED <<queueVars, playbackVars, now, ret, entry, err, egErr, errorCalls,
                   historyVars, controlVars>>

\* os.OpenFile(fifoPath, O_WRONLY) returns once the pipe has been opened for reading.
ProducerOpen ==
    /\ pcP = "open"
    /\ pcC \in {"running", "done"}
    /\ pcP' = "pop"
    /\ UNCHANGED <<queueVars, playbackVars, now, ret, entry, err, emptyStreamCounter,
                   sessionVars, historyVars, controlVars>>

\* os.OpenFile fails: the producer returns the error.
ProducerOpenFail ==
    /\ pcP = "open"
    /\ pcP' = "done"
    /\ err' = ErrOpen
    /\ egErr' = egReturn(egErr, ErrOpen)
    /\ UNCHANGED <<queueVars, playbackVars, now, ret, entry, emptyStreamCounter,
                   pcPlay, pcC, errorCalls, historyVars, controlVars>>

\* A cancellation that does not reach the producer's loop.
PopAllowedAlways == TRUE

\* After cancellation the producer accepts no further work.
PopAllowed == ~cancelled

\* entry, err := dj.pop()
ProducerPop ==
    /\ pcP = "pop"
    /\ PopAllowed
    /\ Locked
    /\ entry' = popEntry(Items)
    /\ err' = popErr(Items)
    /\ Items' = popItems(Items)
    /\ snapshot' = (IF popErr(Items) = Nil THEN Resliced(snapshot) ELSE snapshot)
    /\ popped' = IF popErr(Items) = Nil THEN Append(popped, popEntry(Items)) ELSE popped
    /\ pcP' = IF popErr(Items) = Nil THEN "setCurrent" ELSE "popFailed"
    /\ UNCHANGED <<playbackVars, now, ret, emptyStreamCounter, sessionVars, events, fifo,
                   controlVars>>

\* The empty-streak bound compared off by one.
afterPopFailedOffByOne(e, counter) ==
    IF e = ErrorEmptyQueue
    THEN IF counter > emptyStreamLimit THEN "break" ELSE "silence"
    ELSE "return"

\* Where the producer goes after pop has failed and currentEntry is cleared.
afterPopFailed(e, counter) ==
    IF e = ErrorEmptyQueue
    THEN IF counter >= emptyStreamLimit THEN "break" ELSE "silence"
    ELSE "return"

\* The empty-queue branch leaving currentEntry as it is.
ProducerPopFailedKeeping ==
    /\ pcP = "popFailed"
    /\ LET to == afterPopFailed(err, emptyStreamCounter) IN
         /\ pcP' = IF to = "silence" THEN "silence" ELSE "done"
         /\ egErr' = IF to = "return" THEN egReturn(egErr, err) ELSE egErr
    /\ UNCHANGED <<queueVars, playbackVars, now, ret, entry, err, emptyStreamCounter,
                   pcPlay, pcC, errorCalls, historyVars, controlVars>>

\* err != nil: dj.currentEntry = QueueEntry{}, then break, silence or return err.
ProducerPopFailed ==
    /\ pcP = "popFailed"
    /\ currentEntry' = EmptyEntry
    /\ LET to == afterPopFailed(err, emptyStreamCounter) IN
         /\ pcP' = IF to = "silence" THEN "silence" ELSE "done"
         /\ egErr' = IF to = "return" THEN egReturn(egErr, err) ELSE egErr
    /\ UNCHANGED <<queueVars, songStarted, now, ret, entry, err, emptyStreamCounter,
                   pcPlay, pcC, errorCalls, historyVars, controlVars>>

\* writeToFIFO(fifo, "-re", "-t", "00:00:15", ...) succeeds: the pipe has a reader.
ProducerSilence ==
    /\ pcP = "silence"
    /\ pcC = "running"
    /\ fifo' = writeSilence(fifo)
    /\ emptyStreamCounter' = emptyStreamCounter + 1
    /\ pcP' = "pop"
    /\ UNCHANGED <<queueVars, playbackVars, now, ret, entry, err, sessionVars, events,
                   popped, controlVars>>

\* writeToFIFO fails (ffmpeg exits non-zero, or the pipe has lost its reader).
ProducerSilenceFail ==
    /\ pcP = "silence"
    /\ pcP' = "done"
    /\ err' = ErrWrite
    /\ egErr' = egReturn(egErr, ErrWrite)
    /\ UNCHANGED <<queueVars, playbackVars, now, ret, entry, emptyStreamCounter,
                   pcPlay, pcC, errorCalls, historyVars, controlVars>>

\* dj.currentEntry = entry
ProducerSetCurrent ==
    /\ pcP = "setCurrent"
    /\ currentEntry' = entry
    /\ pcP' = "resolve"
    /\ UNCHANGED <<queueVars, songStarted, now, ret, entry, err, emptyStreamCounter,
                   sessionVars, historyVars, controlVars>>

\* exec.Command("yt-dlp", ...).Output() succeeds
ProducerResolve ==
    /\ pcP = "resolve"
    /\ pcP' = "newSong"
    /\ UNCHANGED <<queueVars, playbackVars, now, ret, entry, err, emptyStreamCounter,
                   sessionVars, historyVars, controlVars>>

\* A failed resolution passed over: the loop goes on to the next entry.
ProducerResolveFailSkipped ==
    /\ pcP = "resolve"
    /\ pcP' = "pop"
    /\ err' = ErrResolve
    /\ UNCHANGED <<queueVars, playbackVars, now, ret, entry, emptyStreamCounter,
                   sessionVars, historyVars, controlVars>>

\* yt-dlp fails: the producer returns the error.
ProducerResolveFail ==
    /\ pcP = "resolve"
    /\ pcP' = "done"
    /\ err' = ErrResolve
    /\ egErr' = egReturn(egErr, ErrResolve)
    /\ UNCHANGED <<queueVars, playbackVars, now, ret, entry, emptyStreamCounter,
                   pcPlay, pcC, errorCalls, historyVars, controlVars>>

\* The loop going on without the new-song handler being called.
ProducerNewSongForgotten ==
    /\ pcP = "newSong"
    /\ pcP' = "setStarted"
    /\ UNCHANGED <<queueVars, playbackVars, now, ret, entry, err, emptyStreamCounter,
                   sessionVars, historyVars, controlVars>>

\* dj.handlers.newSongHandler(entry)
ProducerNewSong ==
    /\ pcP = "newSong"
    /\ events' = Append(events, <<"new", entry, Nil>>)
    /\ pcP' = "setStarted"
    /\ UNCHANGED <<queueVars, playbackVars, now, ret, entry, err, emptyStreamCounter,
                   sessionVars, popped, fifo, controlVars>>

\* dj.songStarted = time.Now()
ProducerSetStarted ==
    /\ pcP = "setStarted"
    /\ songStarted' = now
    /\ pcP' = "encode"
    /\ UNCHANGED <<queueVars, currentEntry, now, ret, entry, err, emptyStreamCounter,
                   sessionVars, historyVars, controlVars>>

\* writeToFIFO(fifo, "-reconnect", "1", "-i", audioURL, ...) succeeds.
ProducerEncode ==
    /\ pcP = "encode"
    /\ pcC = "running"
    /\ ~skip
    /\ fifo' = writeEntry(fifo, entry)
    /\ err' = Nil
    /\ pcP' = "endSong"
    /\ UNCHANGED <<queueVars, playbackVars, now, ret, entry, emptyStreamCounter,
                   sessionVars, events, popped, controlVars>>

\* writeToFIFO fails: the producer returns the error.
ProducerEncodeFail ==
    /\ pcP = "encode"
    /\ pcP' = "done"
    /\ err' = ErrWrite
    /\ egErr' = egReturn(egErr, ErrWrite)
    /\ UNCHANGED <<queueVars, playbackVars, now, ret, entry, emptyStreamCounter,
                   pcPlay, pcC, errorCalls, historyVars, controlVars>>

\* The loop going on without the end-of-song handler being called.
ProducerEndSongForgotten ==
    /\ pcP = "endSong"
    /\ pcP' = "pop"
    /\ UNCHANGED <<queueVars, playbackVars, now, ret, entry, err, emptyStreamCounter,
                   sessionVars, historyVars, controlVars>>

\* dj.handlers.endOfSongHandler(entry, err), and back to the head of the loop
ProducerEndSong ==
    /\ pcP = "endSong"
    /\ events' = Append(events, <<"end", entry, err>>)
    /\ pcP' = "pop"
    /\ UNCHANGED <<queueVars, playbackVars, now, ret, entry, err, emptyStreamCounter,
                   sessionVars, popped, fifo, controlVars>>

-----------------------------------------------------------------------------
(* Play: the consumer goroutine, and the join *)

\* After the warm-up sleep ffmpeg starts and opens the pipe for reading.
ConsumerStart ==
    /\ pcC = "sleep"
    /\ pcC' = "running"
    /\ UNCHANGED <<queueVars, playbackVars, now, ret, producerVars, pcPlay, egErr,
                   errorCalls, historyVars, controlVars>>

\* cmd.Run fails before ffmpeg has opened the pipe.
ConsumerStartFail ==
    /\ pcC = "sleep"
    /\ pcC' = "dead"
    /\ egErr' = egReturn(egErr, ErrStream)
    /\ UNCHANGED <<queueVars, playbackVars, now, ret, producerVars, pcPlay, errorCalls,
                   historyVars, controlVars>>

\* cmd.Run fails while relaying (the endpoint rejects or drops the connection).
ConsumerFail ==
    /\ pcC = "running"
    /\ pcC' = "done"
    /\ egErr' = egReturn(egErr, ErrStream)
    /\ UNCHANGED <<queueVars, playbackVars, now, ret, producerVars, pcPlay, errorCalls,
                   historyVars, controlVars>>

\* The producer has closed the pipe it had opened: ffmpeg reads end of file and
\* exits. (A pipe the producer never opened has no end of file to read.)
ConsumerEOF ==
    /\ pcC = "running"
    /\ pcP = "done"
    /\ err # ErrOpen
    /\ pcC' = "done"
    /\ UNCHANGED <<queueVars, playbackVars, now, ret, producerVars, pcPlay, egErr,
                   errorCalls, historyVars, controlVars>>

\* The handler called without the check for an error.
errorHandlerCallsUnchecked(calls, e) == Append(calls, e)

\* What eg.Wait's caller hands to handlers.errorHander.
errorHandlerCalls(calls, e) == IF e # Nil THEN Append(calls, e) ELSE calls

\* A wait that ends when the first of the two goroutines has returned.
PlayReturnFirstDone ==
    /\ pcPlay = "waiting"
    /\ pcP = "done" \/ pcC \in {"done", "dead"}
    /\ errorCalls' = errorHandlerCalls(errorCalls, egErr)
    /\ pcPlay' = "returned"
    /\ UNCHANGED <<queueVars, playbackVars, now, ret, producerVars, pcC, egErr,
                   historyVars, controlVars>>

\* eg.Wait() returns when both goroutines have; the error goes to the handler.
PlayReturn ==
    /\ pcPlay = "waiting"
    /\ pcP = "done"
    /\ pcC \in {"done", "dead"}
    /\ errorCalls' = errorHandlerCalls(errorCalls, egErr)
    /\ pcPlay' = "returned"
    /\ UNCHANGED <<queueVars, playbackVars, now, ret, producerVars, pcC, egErr,
                   historyVars, controlVars>>

-----------------------------------------------------------------------------
(* Stopping and skipping *)

PerEntryStep == pcP \in {"resolve", "newSong", "setStarted", "encode"}

\* Skip: the producer's current per-entry step is to end early.
Skip ==
    /\ SessionRunning
    /\ skip' = (skip \/ PerEntryStep)
    /\ UNCHANGED <<queueVars, playbackVars, now, ret, producerVars, sessionVars,
                   historyVars, cancelled>>

\* The encode step of a skipped entry ends early, without an error.
ProducerSkipped ==
    /\ pcP = "encode"
    /\ skip
    /\ skip' = FALSE
    /\ fifo' \in {fifo, writeEntry(fifo, entry)}
    /\ err' = Nil
    /\ pcP' = "endSong"
    /\ UNCHANGED <<queueVars, playbackVars, now, ret, entry, emptyStreamCounter,
                   sessionVars, events, popped, cancelled>>

\* The caller cancels the session's context.
Cancel ==
    /\ SessionRunning
    /\ ~cancelled
    /\ cancelled' = TRUE
    /\ UNCHANGED <<queueVars, playbackVars, now, ret, producerVars, sessionVars,
                   historyVars, skip>>

\* The producer unwinds on cancellation.
ProducerCancelled ==
    /\ cancelled
    /\ pcP \notin {"idle", "done"}
    /\ pcP' = "done"
    /\ egErr' = egReturn(egErr, ErrCanceled)
    /\ UNCHANGED <<queueVars, playbackVars, now, ret, entry, err, emptyStreamCounter,
                   pcPlay, pcC, errorCalls, historyVars, controlVars>>

\* The consumer unwinds on cancellation.
ConsumerCancelled ==
    /\ cancelled
    /\ pcC \in {"sleep", "running"}
    /\ pcC' = IF pcC = "sleep" THEN "dead" ELSE "done"
    /\ egErr' = egReturn(egErr, ErrCanceled)
    /\ UNCHANGED <<queueVars, playbackVars, now, ret, producerVars, pcPlay, errorCalls,
                   historyVars, controlVars>>

-----------------------------------------------------------------------------
(* The queries *)

\* time.Since(t)
Since(t, clock) == IF t = ZeroTime THEN maxDuration ELSE clock - t

\* The loop of UserPosition from Go index i on, positions being the result so far.
RECURSIVE UserPositionLoop(_, _, _, _)
UserPositionLoop(items, nick, i, positions) ==
    IF i >= Len(items) THEN positions
    ELSE UserPositionLoop(items, nick, i + 1,
            IF items[i + 1].Owner = nick THEN GoAppend(positions, i) ELSE positions)

\* The loop recording positions counted from 1.
UserPositionListOneBased(items, nick) ==
    [k \in 1..Len(UserPositionLoop(items, nick, 0, <<>>)) |->
        UserPositionLoop(items, nick, 0, <<>>)[k] + 1]

UserPositionList(items, nick) == UserPositionLoop(items, nick, 0, <<>>)

UserPosition(nick) ==
    /\ Locked
    /\ ret' = Ret("UserPosition", Nil, EmptyEntry, UserPositionList(Items, nick))
    /\ UNCHANGED <<queueVars, playbackVars, now, producerVars, sessionVars, historyVars,
                   controlVars>>

\* The loop of DurationUntilUser from Go index i on, dur being the running sum.
RECURSIVE DurationUntilUserLoop(_, _, _, _, _)
DurationUntilUserLoop(items, nick, i, dur, durations) ==
    IF i >= Len(items) THEN durations
    ELSE DurationUntilUserLoop(items, nick, i + 1, dur + items[i + 1].Media.Duration,
            IF items[i + 1].Owner = nick THEN GoAppend(durations, dur) ELSE durations)

\* The loop adding an entry's own duration before it records the entry's wait.
RECURSIVE DurationUntilUserLoopInclusive(_, _, _, _, _)
DurationUntilUserLoopInclusive(items, nick, i, dur, durations) ==
    IF i >= Len(items) THEN durations
    ELSE DurationUntilUserLoopInclusive(items, nick, i + 1,
            dur + items[i + 1].Media.Duration,
            IF items[i + 1].Owner = nick
            THEN GoAppend(durations, dur + items[i + 1].Media.Duration)
            ELSE durations)

\* dur := dj.currentEntry.Media.Duration - time.Since(dj.songStarted)
DurationBase(current, started, clock) == current.Media.Duration - Since(started, clock)

DurationUntilUserListInclusive(items, nick, current, started, clock) ==
    DurationUntilUserLoopInclusive(items, nick, 0, DurationBase(current, started, clock),
                                   <<>>)

DurationUntilUserList(items, nick, current, started, clock) ==
    DurationUntilUserLoop(items, nick, 0, DurationBase(current, started, clock), <<>>)

DurationUntilUser(nick) ==
    /\ Locked
    /\ ret' = Ret("DurationUntilUser", Nil, EmptyEntry,
                  DurationUntilUserList(Items, nick, currentEntry, songStarted, now))
    /\ UNCHANGED <<queueVars, playbackVars, now, producerVars, sessionVars, historyVars,
                   controlVars>>

\* The error CurrentlyPlaying returns.
CurrentlyPlayingErr(current) == IF current.Media = EmptyMedia THEN ErrNothingPlaying ELSE Nil

\* CurrentlyPlaying clearing the slot it finds without a Media.
CurrentlyPlayingClearing ==
    /\ ret' = Ret("CurrentlyPlaying", CurrentlyPlayingErr(currentEntry), currentEntry,
                  <<Since(songStarted, now)>>)
    /\ currentEntry' = IF currentEntry.Media = EmptyMedia THEN EmptyEntry ELSE currentEntry
    /\ songStarted' = IF currentEntry.Media = EmptyMedia THEN ZeroTime ELSE songStarted
    /\ UNCHANGED <<queueVars, now, producerVars, sessionVars, historyVars, controlVars>>

CurrentlyPlaying ==
    /\ ret' = Ret("CurrentlyPlaying", CurrentlyPlayingErr(currentEntry), currentEntry,
                  <<Since(songStarted, now)>>)
    /\ UNCHANGED <<queueVars, playbackVars, now, producerVars, sessionVars, historyVars,
                   controlVars>>

\* Time passes.
Tick ==
    /\ now < MaxTime
    /\ now' = now + 1
    /\ UNCHANGED <<queueVars, playbackVars, ret, producerVars, sessionVars, historyVars,
                   controlVars>>

-----------------------------------------------------------------------------
(* Specifications *)

\* NewDj(queue), with the three handlers registered before Play is called.
Init ==
    /\ Items \in SeqsUpTo(Entries, MaxSeed)
    /\ mutex = "unlocked"
    /\ call = NoCall
    /\ snapshot = NoSnapshot
    /\ currentEntry = EmptyEntry
    /\ songStarted = ZeroTime
    /\ now = 0
    /\ ret = NoRet
    /\ pcPlay = "idle"
    /\ pcP = "idle"
    /\ entry = EmptyEntry
    /\ err = Nil
    /\ emptyStreamCounter = 0
    /\ pcC = "idle"
    /\ egErr = Nil
    /\ errorCalls = <<>>
    /\ events = <<>>
    /\ popped = <<>>
    /\ fifo = EmptyFifo
    /\ skip = FALSE
    /\ cancelled = FALSE

QueueCall ==
    \/ \E e \in Entries : AddEntry(e)
    \/ \E e \in Entries, i \in Indices : InsertEntry(e, i)
    \/ \E i \in Indices : RemoveIndex(i)
    \/ \E e \in Entries, i \in Indices : ChangeIndex(e, i)
    \/ \E i \in Indices : EntryAtIndex(i)

Producer ==
    \/ ProducerOpen
    \/ ProducerOpenFail
    \/ ProducerPop
    \/ ProducerPopFailed
    \/ ProducerSilence
    \/ ProducerSilenceFail
    \/ ProducerSetCurrent
    \/ ProducerResolve
    \/ ProducerResolveFail
    \/ ProducerNewSong
    \/ ProducerSetStarted
    \/ ProducerEncode
    \/ ProducerEncodeFail
    \/ ProducerEndSong

Consumer ==
    \/ ConsumerStart
    \/ ConsumerStartFail
    \/ ConsumerFail
    \/ ConsumerEOF

Next ==
    \/ QueueCall
    \/ Play
    \/ Producer
    \/ Consumer
    \/ PlayReturn

Spec == Init /\ [][Next]_vars

\* The producer's steps that the scheduler and the end of the processes it waits
\* for (yt-dlp, ffmpeg) bring about; os.OpenFile need not fail.
ProducerProgress ==
    \/ ProducerOpen
    \/ ProducerPop
    \/ ProducerPopFailed
    \/ ProducerSilence \/ ProducerSilenceFail
    \/ ProducerSetCurrent
    \/ ProducerResolve \/ ProducerResolveFail
    \/ ProducerNewSong
    \/ ProducerSetStarted
    \/ ProducerEncode \/ ProducerEncodeFail
    \/ ProducerEndSong

\* The consumer's: ffmpeg starts or fails to, and exits at the end of its input;
\* the endpoint need not fail.
ConsumerProgress == ConsumerStart \/ ConsumerStartFail \/ ConsumerEOF

Fairness ==
    WF_vars(ProducerProgress) /\ WF_vars(ConsumerProgress) /\ WF_vars(PlayReturn)

FairSpec == Spec /\ Fairness

\* A session in the middle of its run: the producer emits silence with nothing
\* played yet, or it resolves or encodes the first entry it has popped, while
\* the queue holds any entries. The entry being resolved may be one with the zero
\* Media (AddEntry takes any entry); yt-dlp resolves no empty URL, so none is
\* being encoded.
QueryInit ==
    /\ Items \in SeqsUpTo(QueryEntries, MaxAdded)
    /\ mutex = "unlocked"
    /\ call = NoCall
    /\ snapshot = NoSnapshot
    /\ pcP \in {"silence", "resolve", "encode"}
    /\ entry \in (IF pcP = "silence" THEN {EmptyEntry}
                  ELSE IF pcP = "resolve" THEN QueryEntries \cup {EntBlank}
                  ELSE QueryEntries)
    /\ currentEntry = entry
    /\ err = (IF pcP = "silence" THEN ErrorEmptyQueue ELSE Nil)
    /\ popped = (IF pcP = "silence" THEN <<>> ELSE <<entry>>)
    /\ events = (IF pcP = "encode" THEN <<<<"new", entry, Nil>>>> ELSE <<>>)
    /\ songStarted = (IF pcP = "encode" THEN 0 ELSE ZeroTime)
    /\ now = 0
    /\ ret = NoRet
    /\ pcPlay = "waiting"
    /\ emptyStreamCounter = 0
    /\ pcC = "running"
    /\ egErr = Nil
    /\ errorCalls = <<>>
    /\ fifo = EmptyFifo
    /\ skip = FALSE
    /\ cancelled = FALSE

QueryNext ==
    \/ Tick
    \/ \E nick \in Owners : UserPosition(nick)
    \/ \E nick \in Owners : DurationUntilUser(nick)
    \/ CurrentlyPlaying

QuerySpec == QueryInit /\ [][QueryNext]_vars

\* The session while clients append to the queue and ask the queries.
ObservedNext ==
    \/ \E e \in Entries : AddEntry(e)
    \/ Play
    \/ Producer
    \/ Consumer
    \/ PlayReturn
    \/ \E nick \in Owners : UserPosition(nick)
    \/ \E nick \in Owners : DurationUntilUser(nick)
    \/ CurrentlyPlaying

ObservedSpec == Init /\ [][ObservedNext]_vars

\* The session while time passes and clients ask for what is playing.
TimedNext ==
    \/ Play
    \/ Producer
    \/ Consumer
    \/ PlayReturn
    \/ Tick
    \/ CurrentlyPlaying
    \/ \E nick \in Owners : DurationUntilUser(nick)

TimedSpec == Init /\ [][TimedNext]_vars

\* The operations that write the queue, up to the first pop of a session's
\* producer, while a client calls Queue() and holds on to the slice; InsertEntry's
\* shifting branch also runs statement by statement.
SnapshotNext ==
    \/ \E e \in Entries : AddEntry(e)
    \/ \E e \in Entries, i \in Indices : InsertEntry(e, i)
    \/ \E i \in Indices : RemoveIndex(i)
    \/ \E e \in Entries, i \in Indices : ChangeIndex(e, i)
    \/ \E e \in Entries, i \in Indices : InsertEntryGrow(e, i)
    \/ InsertEntryCopy
    \/ InsertEntryStore
    \/ Queue
    \/ Play
    \/ ConsumerStart
    \/ ProducerOpen
    \/ ProducerPop

SnapshotSpec == Init /\ [][SnapshotNext]_vars

\* The queue of src/main.go: AddEntry, InsertEntry, EntryAtIndex and pop are
\* those of src/opendj.go word for word, RemoveIndex is not.
MainNext ==
    \/ \E e \in Entries : AddEntry(e)
    \/ \E e \in Entries, i \in Indices : InsertEntry(e, i)
    \/ \E i \in Indices : MainRemoveIndex(i)
    \/ \E i \in Indices : EntryAtIndex(i)
    \/ MainPop

MainSpec == Init /\ [][MainNext]_vars

\* The session with its stop and skip signals, while clients append to the queue.
ControlNext ==
    \/ \E e \in Entries : AddEntry(e)
    \/ Play
    \/ Producer
    \/ Consumer
    \/ PlayReturn
    \/ Skip
    \/ Cancel
    \/ ProducerSkipped
    \/ ProducerCancelled
    \/ ConsumerCancelled

ControlFairness ==
    /\ Fairness
    /\ WF_vars(ProducerSkipped)
    /\ WF_vars(ProducerCancelled)
    /\ WF_vars(ConsumerCancelled)

ControlSpec == Init /\ [][ControlNext]_vars /\ ControlFairness

-----------------------------------------------------------------------------
(* The list model the queue is compared with *)

RefAdd(q, e) == [k \in 1..(Len(q) + 1) |-> IF k <= Len(q) THEN q[k] ELSE e]

RefInsert(q, e, i) ==
    [k \in 1..(Len(q) + 1) |-> IF k <= i THEN q[k] ELSE IF k = i + 1 THEN e ELSE q[k - 1]]

RefRemove(q, i) == [k \in 1..(Len(q) - 1) |-> IF k <= i THEN q[k] ELSE q[k + 1]]

RefChange(q, e, i) == [k \in 1..Len(q) |-> IF k = i + 1 THEN e ELSE q[k]]

RefPop(q) == [k \in 1..(Len(q) - 1) |-> q[k + 1]]

InRange(q, i) == 0 <= i /\ i < Len(q)

\* A step that can be the return of a client's call of op (every call of op is one).
Returned(op) == ret'.op = op /\ pcP' = pcP /\ pcC' = pcC /\ pcPlay' = pcPlay

\* The step in which the producer's call of pop returns.
PopStep == pcP = "pop" /\ pcP' \in {"setCurrent", "popFailed"}

-----------------------------------------------------------------------------
(* Claims *)

\* C1: every successful AddEntry, InsertEntry, RemoveIndex, ChangeIndex and pop
\* leaves the queue the reference list model leaves (append; insert at index with
\* the tail shifted right; delete at index with the tail shifted left; overwrite
\* at index; drop the head), the length changes by +1, +1, -1, 0 and -1, and no
\* other step changes the queue.
C1_QueueMatchesReference ==
    [][ /\ Returned("AddEntry") =>
              \A e \in Entries : AddEntry(e) =>
                  Items' = RefAdd(Items, e) /\ Len(Items') = Len(Items) + 1
        /\ Returned("InsertEntry") =>
              \A e \in Entries, i \in Indices : InsertEntry(e, i) /\ InRange(Items, i) =>
                  Items' = RefInsert(Items, e, i) /\ Len(Items') = Len(Items) + 1
        /\ Returned("RemoveIndex") =>
              \A i \in Indices : RemoveIndex(i) /\ InRange(Items, i) =>
                  Items' = RefRemove(Items, i) /\ Len(Items') = Len(Items) - 1
        /\ Returned("ChangeIndex") =>
              \A e \in Entries, i \in Indices : ChangeIndex(e, i) /\ InRange(Items, i) =>
                  Items' = RefChange(Items, e, i) /\ Len(Items') = Len(Items)
        /\ PopStep /\ Items # <<>> =>
              Items' = RefPop(Items) /\ Len(Items') = Len(Items) - 1
        /\ Items' # Items =>
              \/ PopStep
              \/ \E e \in Entries : AddEntry(e)
              \/ \E e \in Entries, i \in Indices : InsertEntry(e, i) \/ ChangeIndex(e, i)
              \/ \E i \in Indices : RemoveIndex(i)
      ]_vars

\* An InsertEntry in the middle of a queue of two has returned, mid-session.
C1_Witness ==
    /\ ret.op = "InsertEntry" /\ ret.err = Nil
    /\ Items = <<EntA, EntB, EntA>>
    /\ pcPlay = "waiting"

\* C6: InsertEntry with index >= length leaves the queue AddEntry would leave
\* (the entry last, the others in place) and returns no error; with index < 0 it
\* returns the out-of-range error and leaves the queue as it was.
C6_InsertOutOfRange ==
    [][ Returned("InsertEntry") =>
            \A e \in Entries, i \in Indices : InsertEntry(e, i) =>
                /\ i >= Len(Items) =>
                      /\ Items' = AddEntryItems(Items, e)
                      /\ Items' = RefAdd(Items, e)
                      /\ ret'.err = Nil
                /\ i < 0 => ret'.err = ErrIndex /\ Items' = Items
                /\ i >= 0 => ret'.err = Nil
      ]_vars

\* An InsertEntry far past the end of a queue of two has appended its entry.
C6_Witness ==
    /\ ret.op = "InsertEntry" /\ ret.err = Nil
    /\ Items = <<EntA, EntA, EntB>>

\* C7: RemoveIndex, ChangeIndex and EntryAtIndex return the out-of-range error
\* exactly when index < 0 or index >= length, the queue is then unchanged, and
\* EntryAtIndex never changes the queue and returns the entry at the index.
C7_IndexErrors ==
    [][ /\ Returned("RemoveIndex") =>
              \A i \in Indices : RemoveIndex(i) =>
                  /\ ret'.err = (IF InRange(Items, i) THEN Nil ELSE ErrIndex)
                  /\ ~InRange(Items, i) => Items' = Items
        /\ Returned("ChangeIndex") =>
              \A e \in Entries, i \in Indices : ChangeIndex(e, i) =>
                  /\ ret'.err = (IF InRange(Items, i) THEN Nil ELSE ErrIndex)
                  /\ ~InRange(Items, i) => Items' = Items
        /\ Returned("EntryAtIndex") =>
              \A i \in Indices : EntryAtIndex(i) =>
                  /\ ret'.err = (IF InRange(Items, i) THEN Nil ELSE ErrIndex)
                  /\ InRange(Items, i) => ret'.entry = Items[i + 1]
                  /\ Items' = Items
      ]_vars

\* RemoveIndex has refused an index on a queue that is not empty.
C7_Witness ==
    /\ ret.op = "RemoveIndex" /\ ret.err = ErrIndex
    /\ Len(Items) = 2

\* C8: pop on an empty queue returns ErrorEmptyQueue and changes neither the queue
\* nor currentEntry and songStarted; on a queue that is not empty it returns the
\* entry at index 0 and leaves the rest, in order.
C8_Pop ==
    [][ PopStep =>
            IF Items = <<>>
            THEN /\ err' = ErrorEmptyQueue
                 /\ Items' = Items
                 /\ currentEntry' = currentEntry /\ songStarted' = songStarted
            ELSE /\ err' = Nil
                 /\ entry' = Items[1]
                 /\ Items' = RefPop(Items)
      ]_vars

\* pop has failed on an empty queue while the last entry is still the current one.
C8_Witness ==
    /\ pcP = "popFailed" /\ err = ErrorEmptyQueue
    /\ currentEntry = EntB /\ songStarted # ZeroTime

\* The producer has left its loop by the break of the empty-queue branch.
ProducerBroke == pcP = "done" /\ err = ErrorEmptyQueue

\* The producer has returned an error.
ProducerFailed == pcP = "done" /\ err \in {ErrOpen, ErrResolve, ErrWrite}

SessionReturned == pcPlay = "returned"

SessionFailed == egErr # Nil

LastCallsAre(a, b) ==
    /\ Len(events) >= 2
    /\ events[Len(events) - 1] = <<"end", a, Nil>>
    /\ events[Len(events)] = <<"new", b, Nil>>

Matches(q, nick) == {i \in 0..(Len(q) - 1) : q[i + 1].Owner = nick}

\* The sum of the durations of the first n entries of q.
RECURSIVE SumDurations(_, _)
SumDurations(q, n) == IF n = 0 THEN 0 ELSE q[n].Media.Duration + SumDurations(q, n - 1)

\* C10: DurationUntilUser returns one duration for each entry the owner has in
\* the queue, in queue order: for the match at index i, the current entry's
\* duration less the time since it started, plus the durations of all the
\* entries before index i; as many as UserPosition returns indices; and [2, 17]
\* for owner X on [A(X, 10), B(Y, 5), C(X, 7)] from a base of 2.
C10_DurationUntilUser ==
    [][ Returned("DurationUntilUser") =>
            \A nick \in Owners : DurationUntilUser(nick) =>
                LET base == currentEntry.Media.Duration
                              - (IF songStarted = ZeroTime THEN maxDuration
                                 ELSE now - songStarted)
                    rank(i) == Cardinality({j \in Matches(Items, nick) : j < i}) + 1
                IN  /\ Len(ret'.list) = Cardinality(Matches(Items, nick))
                    /\ Len(ret'.list) = Len(UserPositionList(Items, nick))
                    /\ \A i \in Matches(Items, nick) :
                          ret'.list[rank(i)] = base + SumDurations(Items, i)
                    /\ Items = <<EntA, EntB, EntC>> /\ nick = "X" /\ base = 2 =>
                          ret'.list = <<2, 17>>
      ]_vars

\* The wait of owner X has been asked for on [A(X, 10), B(Y, 5), C(X, 7)], 3 ticks
\* into an entry of duration 5.
C10_Witness ==
    /\ ret.op = "DurationUntilUser" /\ ret.list = <<2, 17>>
    /\ Items = <<EntA, EntB, EntC>>
    /\ currentEntry = EntB /\ songStarted = 0 /\ now = 3


\* C11: UserPosition returns, in strictly ascending order, exactly the indices
\* of the queue entries whose Owner is the given one at the call, and an empty
\* result when there is none.
C11_UserPosition ==
    [][ Returned("UserPosition") =>
            \A nick \in Owners : UserPosition(nick) =>
                /\ \A k \in 1..(Len(ret'.list) - 1) : ret'.list[k] < ret'.list[k + 1]
                /\ {ret'.list[k] : k \in 1..Len(ret'.list)} = Matches(Items, nick)
                /\ Matches(Items, nick) = {} => ret'.list = <<>>
      ]_vars

\* The positions of owner X have been asked for on [A(X), B(Y), C(X)].
C11_Witness ==
    /\ ret.op = "UserPosition" /\ ret.list = <<0, 2>>
    /\ Items = <<EntA, EntB, EntC>>


\* The producer has made the entry it popped the current one (line 231) and has
\* not cleared it since (line 205).
ProducerHasCurrent == pcP \in {"resolve", "newSong", "setStarted", "encode", "endSong"}

\* C12: CurrentlyPlaying returns the nothing-playing error exactly when no entry
\* is the producer's current entry, and otherwise the current entry with no
\* error, whatever the entry's field values.
C12_CurrentlyPlaying ==
    [][ Returned("CurrentlyPlaying") /\ CurrentlyPlaying =>
            /\ ret'.err = ErrNothingPlaying <=> ~ProducerHasCurrent
            /\ ProducerHasCurrent => ret'.entry = entry /\ ret'.err = Nil
      ]_vars

\* CurrentlyPlaying has reported nothing playing while the producer resolves the
\* entry it has made current.
C12_Witness ==
    /\ ret.op = "CurrentlyPlaying" /\ ret.err = ErrNothingPlaying
    /\ pcP = "resolve" /\ currentEntry = EntBlank /\ entry = EntBlank


\* A step of the producer goroutine.
ProducerStep == pcP' # pcP /\ pcP \notin {"idle", "done"}

\* C13: a call of CurrentlyPlaying, UserPosition or DurationUntilUser leaves the
\* queue, currentEntry and songStarted as they are, in whatever state of the
\* session it is made, and no step but one of the producer goroutine changes
\* currentEntry or songStarted.
C13_QueriesReadOnly ==
    [][ /\ ret'.op \in {"CurrentlyPlaying", "UserPosition", "DurationUntilUser"}
              /\ pcP' = pcP /\ pcC' = pcC /\ pcPlay' = pcPlay =>
           UNCHANGED <<Items, currentEntry, songStarted>>
        /\ <<currentEntry, songStarted>>' # <<currentEntry, songStarted>> => ProducerStep
      ]_vars

\* The wait of owner X has been asked for while an entry was being encoded and
\* two others waited.
C13_Witness ==
    /\ ret.op = "DurationUntilUser" /\ ret.list = <<10>>
    /\ pcP = "encode" /\ currentEntry = EntB /\ songStarted = 0
    /\ popped = <<EntB>> /\ Items = <<EntB, EntA>>


\* The k-th handler call is a new-song call that an end-of-song call for the same
\* entry follows.
EndFollows(k) ==
    /\ k < Len(events)
    /\ events[k + 1][1] = "end"
    /\ events[k + 1][2] = events[k][2]

\* C14: the end-of-song handler is called, with the entry and the error or none,
\* after every entry whose streaming step has ended, whether it succeeded or
\* failed: once the producer is past the streaming step of an entry, every
\* new-song call has been followed by the end-of-song call for its entry.
C14_EndOfSongAlways ==
    pcP \notin {"setStarted", "encode", "endSong"} =>
        \A k \in 1..Len(events) : events[k][1] = "new" => EndFollows(k)

\* The encoding of the first entry has failed and the producer has returned after
\* the new-song call alone.
C14_Witness ==
    /\ pcP = "done" /\ err = ErrWrite
    /\ popped = <<EntA>>
    /\ events = <<<<"new", EntA, Nil>>>>

\* C15: a failure of the transcoder while an entry is streamed and the pipe still
\* has its reader does not end the session: the producer goes on to the
\* end-of-song call with the error, and no error of the session is recorded.
C15_EncodeFailureTolerated ==
    [][ pcP = "encode" /\ pcP' # pcP /\ pcC = "running" /\ err' = ErrWrite =>
            /\ pcP' = "endSong"
            /\ egErr' = egErr
      ]_vars

\* The transcoder has failed with the pipe still read, and the session has ended
\* with that error handed to the playback-error handler.
C15_Witness ==
    /\ SessionReturned
    /\ pcP = "done" /\ err = ErrWrite /\ popped = <<EntA>> /\ Items = <<EntB>>
    /\ errorCalls = <<ErrWrite>>

\* C16: the empty-streak counter is 0 once pop has returned an entry, so the
\* producer leaves its loop for emptiness only after 4 silence segments in a row.
C16_CounterReset ==
    /\ pcP \in {"resolve", "newSong", "setStarted", "encode", "endSong"} =>
          emptyStreamCounter = 0
    /\ ProducerBroke => fifo.silence = emptyStreamLimit

\* The producer has left its loop with one silence segment behind the last entry:
\* three segments before it was added, one after it.
C16_Witness ==
    /\ ProducerBroke
    /\ popped = <<EntA>> /\ fifo.entries = <<EntA>>
    /\ fifo.silence = 1


\* C17: a failure of either goroutine ends the session: once a goroutine of a
\* running session has returned an error, Play returns and the playback-error
\* handler has been called with the error.
C17_FailureEndsSession ==
    (SessionRunning /\ SessionFailed) ~> (SessionReturned /\ errorCalls = <<egErr>>)

\* The consumer has failed before it opened the pipe, and the producer waits in
\* os.OpenFile for a reader.
C17_Witness ==
    /\ SessionRunning
    /\ pcC = "dead" /\ egErr = ErrStream
    /\ pcP = "open"
    /\ ~ENABLED ProducerOpen


\* The producer has returned the error of a failed resolution.
ResolveFailed == pcP = "done" /\ err = ErrResolve

C19_CurrentEntryInvariant ==
    /\ [](pcP = "encode" =>
              currentEntry = entry /\ popped # <<>> /\ entry = popped[Len(popped)])
    /\ [](pcP = "silence" => currentEntry = EmptyEntry)
    /\ [][ fifo'.entries # fifo.entries =>
              /\ fifo'.entries = Append(fifo.entries, currentEntry)
              /\ currentEntry' = currentEntry ]_vars
    /\ [][ fifo'.silence > fifo.silence =>
              currentEntry = EmptyEntry /\ currentEntry' = EmptyEntry ]_vars

\* Silence is being written after an entry has been played: currentEntry has been
\* cleared.
C19_Witness ==
    /\ pcP = "silence" /\ currentEntry = EmptyEntry
    /\ popped = <<EntA>> /\ fifo.entries = <<EntA>> /\ fifo.silence = 1


\* C20: the pipe holds the segments of the popped entries in pop order, at most
\* one for each and none of any other entry; a segment is written whole, after
\* the new-song call of its entry and before the end-of-song call, which comes
\* only with the segment written; and pop takes the entry at index 0 of the
\* queue as it is at the time of the pop.
C20_StreamOrder ==
    /\ [](/\ Len(fifo.entries) <= Len(popped)
          /\ fifo.entries = SubSeq(popped, 1, Len(fifo.entries))
          /\ Len(fifo.entries) >= Len(popped) - 1)
    /\ [][ fifo'.entries # fifo.entries =>
              /\ fifo'.entries = Append(fifo.entries, popped[Len(popped)])
              /\ Len(events) = 2 * Len(popped) - 1
              /\ events[Len(events)] = <<"new", popped[Len(popped)], Nil>>
              /\ events' = events ]_vars
    /\ [][ events' # events /\ events'[Len(events')][1] = "end" =>
              Len(fifo.entries) = Len(popped) /\ fifo' = fifo ]_vars
    /\ [][ popped' # popped =>
              /\ Items # <<>>
              /\ popped' = Append(popped, Items[1])
              /\ Items' = Tail(Items) ]_vars

\* The segments of two different entries are in the pipe, the second entry's
\* end-of-song call made.
C20_Witness ==
    /\ popped = <<EntA, EntB>>
    /\ fifo.entries = <<EntA, EntB>>
    /\ Len(events) = 4
    /\ pcP = "pop"


\* The queue of the operation c once it has run as a whole.
WholeCall(c) == RefInsert(c.before, c.newEntry, c.index)

\* C21: what Queue() returns is the queue before or after each whole operation,
\* never the state between two statements of one (the empty placeholder at the
\* end, or an entry twice while the tail is shifted); and what the holder of a
\* returned slice reads through it stays what it was at the return, whatever
\* AddEntry, InsertEntry, RemoveIndex, ChangeIndex and pop do later.
C21_SnapshotConsistent ==
    snapshot.taken =>
        /\ snapshot.during # NoCall =>
              snapshot.orig \in {snapshot.during.before, WholeCall(snapshot.during)}
        /\ snapshot.seen = snapshot.orig

\* A client has called Queue() on [A, B] and RemoveIndex(0) has run since: the
\* slice it holds reads [B, B].
C21_Witness ==
    /\ snapshot.taken /\ snapshot.during = NoCall
    /\ snapshot.orig = <<EntA, EntB>>
    /\ snapshot.seen = <<EntB, EntB>>
    /\ Items = <<EntB>>
    /\ ret.op = "RemoveIndex" /\ ret.err = Nil


\* C22: every queue operation releases the mutex on every path, the return of
\* its range check too: whenever no operation is between two of its statements
\* the mutex is unlocked, so that the next operation and the producer's pop can
\* take it.
C22_LockReleased == call = NoCall => mutex = "unlocked"

\* RemoveIndex has returned its range error and the mutex is still locked: no
\* AddEntry and no pop can go on.
C22_Witness ==
    /\ ret.op = "RemoveIndex" /\ ret.err = ErrIndex
    /\ mutex = "locked" /\ call = NoCall
    /\ Items = <<EntA, EntB>>
    /\ ~ENABLED MainPop
    /\ ~ENABLED AddEntry(EntA)


\* The producer is between its assignment of currentEntry (line 231) and that of
\* songStarted (line 242): it resolves the entry, or is at its new-song handler.
BeforeStamp == pcP \in {"resolve", "newSong", "setStarted"}

\* C23: the producer sets currentEntry to the popped entry and records its start
\* timestamp as one step, so that a CurrentlyPlaying that reports an entry, one
\* made from the new-song handler included, reports the time since that entry's
\* timestamp: never the zero timestamp's, and never while the timestamp is still
\* the one of the entry before.
C23_StampWithEntry ==
    [][/\ ProducerSetCurrent => songStarted' = now'
       /\ CurrentlyPlaying /\ ret'.err = Nil =>
            /\ songStarted # ZeroTime
            /\ ~BeforeStamp]_vars

\* At the new-song handler of the second entry CurrentlyPlaying has reported that
\* entry with the time since the first entry's timestamp.
C23_Witness ==
    /\ ret.op = "CurrentlyPlaying" /\ ret.err = Nil
    /\ popped = <<EntA, EntB>>
    /\ ret.entry = EntB
    /\ currentEntry = EntB
    /\ pcP = "newSong"
    /\ songStarted = 0 /\ now = 2
    /\ ret.list = <<2>>


\* C24: once Play has returned, whatever ended the session, currentEntry is
\* unset, and a CurrentlyPlaying answered from then on reports that nothing is
\* playing.
C24_UnsetAfterSession ==
    [][SessionReturned =>
          /\ currentEntry = EmptyEntry
          /\ CurrentlyPlaying => ret'.err = ErrNothingPlaying]_vars

\* The session has ended on a failed resolution of its first entry, the error
\* handler has been called, and CurrentlyPlaying has reported that entry.
C24_Witness ==
    /\ SessionReturned
    /\ errorCalls = <<ErrResolve>>
    /\ popped = <<EntA>>
    /\ currentEntry = EntA
    /\ ret.op = "CurrentlyPlaying" /\ ret.err = Nil /\ ret.entry = EntA

=============================================================================
